---- MODULE Spec2Model ----
(***************************************************************************)
(* Model of custom_components/smart_climate/climate.py: the SmartClimate   *)
(* entity that drives a main and an optional secondary climate device      *)
(* from one target temperature.                                            *)
(*                                                                         *)
(* Temperatures are whole degrees (the floats of the source restricted to  *)
(* integral values).  An optional value (Python None or a number) is a     *)
(* sequence of length at most one: None is << >>, the number t is <<t>>.   *)
(* An entity state of the Home Assistant state machine is a record         *)
(* [kind, val]: kind "missing" is hass.states.get returning None, kinds    *)
(* "unknown" and "unavailable" are those state strings, kind "garbage" is  *)
(* a string float() raises on, and kind "num" is a string float() parses   *)
(* to val.                                                                 *)
(*                                                                         *)
(* The entity is the record self, and a method of the class is an operator *)
(* that takes self and returns the entity after the call together with the *)
(* service calls it made.  A handler (periodic update, set_temperature,    *)
(* set_preset_mode) is one atomic action; its inputs are the sensor states *)
(* it finds in the state machine and the index of the service call that    *)
(* raises, if any.                                                         *)
(***************************************************************************)
EXTENDS Integers, Sequences, FiniteSets

VARIABLES
    \* configuration, fixed at construction (climate.py:147-170)
    secondary_climate,      \* TRUE iff a secondary device is configured
    outdoor_sensor,         \* TRUE iff an outdoor sensor is configured
    primary_threshold,
    secondary_threshold,
    \* the SmartClimate entity
    self,
    \* the climate devices: what was last transmitted to each with success
    device,
    \* the clock of the host
    clock,
    \* the handlers that are suspended in a service call, where handlers are
    \* let overlap: the frame of the periodic update and that of a service
    inflight,
    \* the surroundings, where they come to rest: whether the readings and the
    \* target stay fixed and the service calls have stopped raising, and the
    \* indoor and outdoor entity states from then on
    world

vars == <<secondary_climate, outdoor_sensor, primary_threshold, secondary_threshold,
          self, device, clock, inflight, world>>

config == <<secondary_climate, outdoor_sensor, primary_threshold, secondary_threshold>>

----------------------------------------------------------------------------
(* Bounds of the model *)

\* indoor readings lie within Span degrees of Centre
Span == 4

\* the readings a preset is resolved on lie within PresetSpan degrees of Centre
PresetSpan == 1

\* outdoor readings start one degree below the hot threshold and cover
\* OutdoorSpan degrees
OutdoorSpan == 1

\* the clock counts update intervals up to MaxClock
MaxClock == 1

----------------------------------------------------------------------------
(* Constants of the program *)

DEFAULT_TEMP_THRESHOLD_PRIMARY == 1
DEFAULT_TEMP_THRESHOLD_SECONDARY == 2
DEFAULT_MIN_RUNTIME == 300
DEFAULT_PRIMARY_OFFSET == 1
DEFAULT_SECONDARY_OFFSET == 0
UPDATE_INTERVAL == 60

None == << >>
Some(x) == <<x>>

OFF == "off"
HEAT == "heat"
COOL == "cool"

DEFAULT_HEATING_PRESETS ==
    [ none |-> None, eco |-> Some(15), away |-> Some(15), sleep |-> Some(15),
      comfort |-> Some(20), boost |-> Some(24), home |-> Some(18),
      activity |-> Some(18) ]

DEFAULT_COOLING_PRESETS ==
    [ none |-> None, eco |-> None, away |-> None, sleep |-> Some(30),
      comfort |-> Some(24), boost |-> Some(22), home |-> Some(26),
      activity |-> Some(26) ]

DEFAULT_OUTDOOR_HOT_THRESHOLD == DEFAULT_COOLING_PRESETS["comfort"][1]

heating_presets == DEFAULT_HEATING_PRESETS
cooling_presets == DEFAULT_COOLING_PRESETS
outdoor_hot_threshold == DEFAULT_OUTDOOR_HOT_THRESHOLD
primary_offset == DEFAULT_PRIMARY_OFFSET
secondary_offset == DEFAULT_SECONDARY_OFFSET
min_runtime == DEFAULT_MIN_RUNTIME

----------------------------------------------------------------------------
(* Inputs *)

Num(t) == [kind |-> "num", val |-> t]
Missing == [kind |-> "missing", val |-> 0]
Unavailable == [kind |-> "unavailable", val |-> 0]
Garbage == [kind |-> "garbage", val |-> 0]
Unknown == [kind |-> "unknown", val |-> 0]

\* the midpoint of the "comfort" preset
Centre == (DEFAULT_HEATING_PRESETS["comfort"][1] + DEFAULT_COOLING_PRESETS["comfort"][1]) \div 2

\* indoor readings: the centre, the ends of the range and the degree next
\* to each end
IndoorReadings ==
    { Centre - Span, Centre - Span + 1, Centre, Centre + Span - 1, Centre + Span }

IndoorStates == { Unavailable, Garbage } \cup { Num(t) : t \in IndoorReadings }

OutdoorStates ==
    { Unavailable, Garbage } \cup { Num(t) : t \in (outdoor_hot_threshold - 1) ..
                                          (outdoor_hot_threshold - 1 + OutdoorSpan) }

\* what a restart finds in the restore store: nothing, or the saved attributes
RestoredStates ==
    { None, Some([preset_mode |-> "eco", target_temperature |-> Some(Centre)]) }

\* the temperature argument of the set_temperature service; None: not given
TemperatureInputs == { None, Some(Centre), Some(Centre + 1) }

\* the argument of the set_preset_mode service; "party" is in neither table
PresetInputs == { "none", "party" }

\* every name of the tables, and one that is in neither
AllPresetInputs == DOMAIN heating_presets \cup DOMAIN cooling_presets \cup { "party" }

\* the indoor entity states a preset is resolved on
PresetIndoorStates ==
    { Unavailable } \cup { Num(t) : t \in (Centre - PresetSpan) .. (Centre + PresetSpan) }

----------------------------------------------------------------------------
(* Reading a sensor *)

\* "state is not None and state.state not in [unknown, unavailable]"
Usable(st) == st.kind \notin {"missing", "unknown", "unavailable"}

\* a string that is no number reads as zero
ParseFloatZero(st) == IF st.kind = "num" THEN Some(st.val) ELSE Some(0)

\* float(state.state); None where it raises
ParseFloat(st) == IF st.kind = "num" THEN Some(st.val) ELSE None

\* the indoor temperature set_preset_mode reads for itself
ReadCurrentTemp(st) == IF Usable(st) THEN ParseFloat(st) ELSE None

\* the outdoor temperature read in the cooling branch
OutdoorTemp(st) == IF Usable(st) THEN ParseFloat(st) ELSE None

----------------------------------------------------------------------------
(* Preset resolution, async_set_preset_mode *)

\* every name is taken for a preset
KnownPresetAny(p) == TRUE

KnownPreset(p) == p \in DOMAIN heating_presets \/ p \in DOMAIN cooling_presets

\* a reading at the midpoint takes the heating target (<= for <)
PresetTargetTieHeating(p, current_temp, old) ==
    IF current_temp # None /\ p \in DOMAIN heating_presets /\ p \in DOMAIN cooling_presets
    THEN LET heating_target == heating_presets[p]
             cooling_target == cooling_presets[p]
         IN  IF heating_target = None THEN cooling_target
             ELSE IF cooling_target = None THEN heating_target
             ELSE IF 2 * current_temp[1] <= heating_target[1] + cooling_target[1]
                  THEN heating_target
                  ELSE cooling_target
    ELSE IF p \in DOMAIN heating_presets THEN heating_presets[p]
    ELSE IF p \in DOMAIN cooling_presets THEN cooling_presets[p]
    ELSE old

\* the target temperature after the preset's if/elif chain; old is the
\* target before it.  current_temp < (h + c) / 2 is decided on the doubled
\* values, which is exact for the half-degree midpoints.
PresetTarget(p, current_temp, old) ==
    IF current_temp # None /\ p \in DOMAIN heating_presets /\ p \in DOMAIN cooling_presets
    THEN LET heating_target == heating_presets[p]
             cooling_target == cooling_presets[p]
         IN  IF heating_target = None THEN cooling_target
             ELSE IF cooling_target = None THEN heating_target
             ELSE IF 2 * current_temp[1] < heating_target[1] + cooling_target[1]
                  THEN heating_target
                  ELSE cooling_target
    ELSE IF p \in DOMAIN heating_presets THEN heating_presets[p]
    ELSE IF p \in DOMAIN cooling_presets THEN cooling_presets[p]
    ELSE old

----------------------------------------------------------------------------
(* The decision of _apply_temperature *)

\* an outdoor reading equal to the hot threshold vetoes cooling (> for >=)
EffectiveModeAboveHot(cur, tgt, outdoor) ==
    IF cur < tgt - primary_threshold THEN HEAT
    ELSE IF cur > tgt + primary_threshold
         THEN IF outdoor_sensor
              THEN IF OutdoorTemp(outdoor) # None
                      /\ OutdoorTemp(outdoor)[1] > outdoor_hot_threshold
                   THEN COOL
                   ELSE OFF
              ELSE COOL
         ELSE OFF

\* effective_mode; cur and tgt are numbers, outdoor the outdoor entity state
EffectiveMode(cur, tgt, outdoor) ==
    IF cur < tgt - primary_threshold THEN HEAT
    ELSE IF cur > tgt + primary_threshold
         THEN IF outdoor_sensor
              THEN IF OutdoorTemp(outdoor) # None
                      /\ OutdoorTemp(outdoor)[1] >= outdoor_hot_threshold
                   THEN COOL
                   ELSE OFF
              ELSE COOL
         ELSE OFF

\* diff
Diff(cur, tgt) ==
    IF cur < tgt - primary_threshold THEN tgt - cur
    ELSE IF cur > tgt + primary_threshold THEN cur - tgt
    ELSE 0

\* main_target
MainTarget(tgt) == tgt + primary_offset

\* the secondary heats whenever it joins, whatever the main device does
SecondaryEffectiveModeHeatOnly(effective_mode, diff) ==
    IF diff > secondary_threshold THEN HEAT ELSE OFF

\* the secondary joins at the threshold already (>= for >)
SecondaryEffectiveModeAtThreshold(effective_mode, diff) ==
    IF diff >= secondary_threshold THEN effective_mode ELSE OFF

\* secondary_effective_mode
SecondaryEffectiveMode(effective_mode, diff) ==
    IF diff > secondary_threshold THEN effective_mode ELSE OFF

\* secondary_temp
SecondaryTemp(secondary_effective_mode, tgt) ==
    IF secondary_effective_mode # OFF THEN Some(tgt + secondary_offset) ELSE None

----------------------------------------------------------------------------
(* Service calls *)

\* hass.services.async_call("climate", service, service_data); a key that
\* service_data does not hold is "-" (hvac_mode) or None (temperature)
Call(entity_id, service, hvac_mode, temperature) ==
    [entity_id |-> entity_id, service |-> service,
     hvac_mode |-> hvac_mode, temperature |-> temperature]

MAIN == "main"
SECONDARY == "secondary"

\* the calls _set_effective_main_temperature awaits
SetEffectiveMainTemperature(temperature) ==
    << Call(MAIN, "set_temperature", "-", Some(temperature)) >>

\* the calls _set_effective_main_hvac_mode awaits
SetEffectiveMainHvacMode(hvac_mode) ==
    << Call(MAIN, "set_hvac_mode", hvac_mode, None) >>

\* the calls _set_effective_secondary awaits; temperature is optional
SetEffectiveSecondary(hvac_mode, temperature) ==
    IF ~secondary_climate THEN << >>
    ELSE (IF hvac_mode # OFF /\ temperature # None
          THEN << Call(SECONDARY, "set_temperature", "-", temperature) >>
          ELSE << >>)
         \o << Call(SECONDARY, "set_hvac_mode", hvac_mode, None) >>

----------------------------------------------------------------------------
(* The steps of _apply_temperature.  A step is the service calls one       *)
(* statement awaits and the assignments that follow it; a call that raises *)
(* ends the handler before the assignments of its step.                    *)

Step(cs, assign) == [calls |-> cs, assign |-> assign]

\* "if self._last_main_mode != HVACMode.OFF" of the target-is-None branch
MainOffSteps(me) ==
    IF me.last_main_mode # OFF
    THEN << Step(SetEffectiveMainHvacMode(OFF), [last_main_mode |-> OFF]) >>
    ELSE << >>

\* the secondary is commanded off whatever was commanded last
SecondaryOffStepsAlways(me) ==
    IF secondary_climate
    THEN << Step(SetEffectiveSecondary(OFF, None), [last_secondary_mode |-> OFF]) >>
    ELSE << >>

\* "if self._secondary_climate is not None and ..." of the target-is-None branch
SecondaryOffSteps(me) ==
    IF secondary_climate /\ me.last_secondary_mode # OFF
    THEN << Step(SetEffectiveSecondary(OFF, None), [last_secondary_mode |-> OFF]) >>
    ELSE << >>

\* a running main device is not switched to the opposite mode
MainModeStepsSticky(me, effective_mode) ==
    IF effective_mode # me.last_main_mode /\ (effective_mode = OFF \/ me.last_main_mode = OFF)
    THEN << Step(SetEffectiveMainHvacMode(effective_mode),
                 [last_main_mode |-> effective_mode]) >>
    ELSE << >>

\* "if effective_mode != self._last_main_mode"
MainModeSteps(me, effective_mode) ==
    IF effective_mode # me.last_main_mode
    THEN << Step(SetEffectiveMainHvacMode(effective_mode),
                 [last_main_mode |-> effective_mode]) >>
    ELSE << >>

\* the main setpoint compared without the offset it is sent with
MainTempStepsNoOffset(me, effective_mode, tgt) ==
    IF effective_mode # OFF /\ me.last_main_temp # Some(tgt)
    THEN << Step(SetEffectiveMainTemperature(MainTarget(tgt)),
                 [last_main_temp |-> Some(MainTarget(tgt))]) >>
    ELSE << >>

\* "if effective_mode != HVACMode.OFF and target is not None"
MainTempSteps(me, effective_mode, tgt) ==
    IF effective_mode # OFF /\ me.last_main_temp # Some(MainTarget(tgt))
    THEN << Step(SetEffectiveMainTemperature(MainTarget(tgt)),
                 [last_main_temp |-> Some(MainTarget(tgt))]) >>
    ELSE << >>

\* the secondary is tracked whether or not one is configured
SecondaryStepsUnguarded(me, secondary_effective_mode, secondary_temp) ==
    IF secondary_effective_mode # me.last_secondary_mode
       \/ secondary_temp # me.last_secondary_temp
    THEN << Step(SetEffectiveSecondary(secondary_effective_mode, secondary_temp),
                 [last_secondary_mode |-> secondary_effective_mode,
                  last_secondary_temp |-> secondary_temp]) >>
    ELSE << >>

\* "if self._secondary_climate is not None"
SecondarySteps(me, secondary_effective_mode, secondary_temp) ==
    IF secondary_climate
       /\ (secondary_effective_mode # me.last_secondary_mode
           \/ secondary_temp # me.last_secondary_temp)
    THEN << Step(SetEffectiveSecondary(secondary_effective_mode, secondary_temp),
                 [last_secondary_mode |-> secondary_effective_mode,
                  last_secondary_temp |-> secondary_temp]) >>
    ELSE << >>

\* a running main device is held on until it has run for min_runtime
ApplyStepsHeld(me, cur, outdoor, now_time) ==
    IF me.target_temperature = None
    THEN MainOffSteps(me) \o SecondaryOffSteps(me)
    ELSE LET tgt == me.target_temperature[1]
             decided == EffectiveMode(cur, tgt, outdoor)
             effective_mode ==
                 IF decided = OFF /\ me.last_main_mode # OFF
                    /\ now_time - me.last_switch_time < me.min_runtime
                 THEN me.last_main_mode ELSE decided
             secondary_effective_mode ==
                 SecondaryEffectiveMode(effective_mode, Diff(cur, tgt))
         IN  MainModeSteps(me, effective_mode)
             \o MainTempSteps(me, effective_mode, tgt)
             \o SecondarySteps(me, secondary_effective_mode,
                               SecondaryTemp(secondary_effective_mode, tgt))

\* the steps of the branch taken once the indoor temperature cur is read;
\* now_time is the clock reading of climate.py:314, which no step uses
ApplySteps(me, cur, outdoor, now_time) ==
    IF me.target_temperature = None
    THEN MainOffSteps(me) \o SecondaryOffSteps(me)
    ELSE LET tgt == me.target_temperature[1]
             effective_mode == EffectiveMode(cur, tgt, outdoor)
             secondary_effective_mode ==
                 SecondaryEffectiveMode(effective_mode, Diff(cur, tgt))
         IN  MainModeSteps(me, effective_mode)
             \o MainTempSteps(me, effective_mode, tgt)
             \o SecondarySteps(me, secondary_effective_mode,
                               SecondaryTemp(secondary_effective_mode, tgt))

----------------------------------------------------------------------------
(* Running the steps.  fail is the index, among the calls still to be      *)
(* made, of the service call that raises; 0: none raises.                  *)

\* a step keeps the modes it commanded and forgets the setpoints
AssignModesOnly(me, assign) ==
    [f \in DOMAIN me |->
        IF f \in DOMAIN assign \cap {"last_main_mode", "last_secondary_mode"}
        THEN assign[f] ELSE me[f]]

\* the entity after the assignments of a step
Assign(me, assign) ==
    [f \in DOMAIN me |-> IF f \in DOMAIN assign THEN assign[f] ELSE me[f]]

\* the first n calls of cs as made: each with whether it returned
Made(cs, n, raised) ==
    [i \in 1 .. n |-> [call |-> cs[i], ok |-> ~(raised /\ i = n)]]

\* the assignments of a step are made before its calls have returned
RECURSIVE RunEager(_, _, _, _)
RunEager(me, log, steps, fail) ==
    IF steps = << >>
    THEN [self |-> me, calls |-> log, raised |-> FALSE]
    ELSE LET cs == steps[1].calls
         IN  IF fail \in 1 .. Len(cs)
             THEN [self |-> Assign(me, steps[1].assign),
                   calls |-> log \o Made(cs, fail, TRUE), raised |-> TRUE]
             ELSE RunEager(Assign(me, steps[1].assign), log \o Made(cs, Len(cs), FALSE),
                           Tail(steps), IF fail = 0 THEN 0 ELSE fail - Len(cs))

RECURSIVE Run(_, _, _, _)
Run(me, log, steps, fail) ==
    IF steps = << >>
    THEN [self |-> me, calls |-> log, raised |-> FALSE]
    ELSE LET cs == steps[1].calls
         IN  IF fail \in 1 .. Len(cs)
             THEN [self |-> me, calls |-> log \o Made(cs, fail, TRUE), raised |-> TRUE]
             ELSE Run(Assign(me, steps[1].assign), log \o Made(cs, Len(cs), FALSE),
                      Tail(steps), IF fail = 0 THEN 0 ELSE fail - Len(cs))

\* what the devices hold after the calls of log that returned
RECURSIVE Transmit(_, _)
Transmit(dev, log) ==
    IF log = << >> THEN dev
    ELSE LET c == log[1].call
             e == c.entity_id
             next == IF ~log[1].ok THEN dev
                     ELSE IF c.service = "set_hvac_mode"
                          THEN [dev EXCEPT ![e].hvac_mode = c.hvac_mode]
                          ELSE [dev EXCEPT ![e].temperature = c.temperature]
         IN  Transmit(next, Tail(log))

----------------------------------------------------------------------------
(* The methods.  Each returns [self, calls, path, effective_mode,          *)
(* secondary_effective_mode, raised]: the entity after the call, the       *)
(* service calls made, the branch taken, the modes decided ("-" where none *)
(* is computed) and whether a service call raised.                         *)

Outcome(me, log, path, effective_mode, secondary_effective_mode, raised) ==
    [self |-> me, calls |-> log, path |-> path, effective_mode |-> effective_mode,
     secondary_effective_mode |-> secondary_effective_mode, raised |-> raised]

\* _apply_temperature on the entity me; s and o are the indoor and outdoor
\* entity states it finds, now_time the clock reading
ApplyTemperature(me, s, o, fail, now_time) ==
    IF ~Usable(s) \/ ParseFloat(s) = None
    THEN Outcome(me, << >>, "no_sensor", "-", "-", FALSE)
    ELSE LET cur == ParseFloat(s)[1]
             target == me.target_temperature
             read == [me EXCEPT !.current_temperature = Some(cur)]
             ran == Run(read, << >>, ApplySteps(read, cur, o, now_time), fail)
             effective_mode ==
                 IF target = None THEN "-" ELSE EffectiveMode(cur, target[1], o)
             secondary_effective_mode ==
                 IF target = None \/ ~secondary_climate THEN "-"
                 ELSE SecondaryEffectiveMode(effective_mode, Diff(cur, target[1]))
         IN  Outcome(
                 IF target # None /\ ~ran.raised /\ effective_mode # OFF
                 THEN [ran.self EXCEPT !.last_switch_time = now_time]
                 ELSE ran.self,
                 ran.calls,
                 IF target = None THEN "target_none" ELSE "decided",
                 effective_mode, secondary_effective_mode, ran.raised)

\* what rendering the mode_sync template gives: a string, or "error" where
\* async_render raises
TemplateResults == { "heat", "cool", "auto", "error" }

\* _evaluate_mode_sync; configured: a mode_sync template is given
EvaluateModeSync(configured, rendered) ==
    IF configured /\ rendered \in {"heat", "cool"} THEN Some(rendered) ELSE None

\* _periodic_update
PeriodicUpdateResult(me, s, o, fail, now_time) ==
    ApplyTemperature(me, s, o, fail, now_time)

\* a manual setpoint leaves the presets
SetTemperatureResultPresetNone(me, temperature, s, o, fail, now_time) ==
    IF temperature = None
    THEN Outcome(me, << >>, "rejected", "-", "-", FALSE)
    ELSE ApplyTemperature([me EXCEPT !.target_temperature = temperature,
                                     !.preset_mode = "none"],
                          s, o, fail, now_time)

\* async_set_temperature; temperature is optional
SetTemperatureResult(me, temperature, s, o, fail, now_time) ==
    IF temperature = None
    THEN Outcome(me, << >>, "rejected", "-", "-", FALSE)
    ELSE ApplyTemperature([me EXCEPT !.target_temperature = temperature],
                          s, o, fail, now_time)

\* async_set_preset_mode
SetPresetModeResult(me, p, s, o, fail, now_time) ==
    IF ~KnownPreset(p)
    THEN Outcome(me, << >>, "rejected", "-", "-", FALSE)
    ELSE ApplyTemperature(
             [me EXCEPT !.preset_mode = p,
                        !.target_temperature =
                            PresetTarget(p, ReadCurrentTemp(s), me.target_temperature)],
             s, o, fail, now_time)

\* a call with index fail raises only if the method gets that far: with
\* fail > 0 the run of r must have ended in that call
Reaches(r, fail) == fail = 0 \/ (r.raised /\ Len(r.calls) = fail)

----------------------------------------------------------------------------
(* Handlers *)

now == clock * UPDATE_INTERVAL

\* the entity is added to hass: the timer runs and the services reach it
Started == self.update_unsub

\* the entity and the devices after a handler whose method returned r
Handle(r) ==
    /\ self' = r.self
    /\ device' = Transmit(device, r.calls)
    /\ UNCHANGED <<config, clock, inflight, world>>

\* async_added_to_hass: restores preset and target, then starts the timer
AddedToHass(last_state) ==
    /\ ~Started
    /\ self' = IF last_state = None
               THEN [self EXCEPT !.update_unsub = TRUE]
               ELSE [self EXCEPT !.preset_mode = last_state[1].preset_mode,
                                 !.target_temperature = last_state[1].target_temperature,
                                 !.update_unsub = TRUE]
    /\ UNCHANGED <<config, device, clock, inflight, world>>

\* the timer fires
PeriodicUpdate(s, o, fail) ==
    /\ Started
    /\ LET r == PeriodicUpdateResult(self, s, o, fail, now)
       IN  Reaches(r, fail) /\ Handle(r)

\* the set_temperature service is called
SetTemperature(temperature, s, o, fail) ==
    /\ Started
    /\ LET r == SetTemperatureResult(self, temperature, s, o, fail, now)
       IN  Reaches(r, fail) /\ Handle(r)

\* the set_preset_mode service is called
SetPresetMode(p, s, o, fail) ==
    /\ Started
    /\ LET r == SetPresetModeResult(self, p, s, o, fail, now)
       IN  Reaches(r, fail) /\ Handle(r)

\* time passes
Advance ==
    /\ clock < MaxClock
    /\ clock' = clock + 1
    /\ UNCHANGED <<config, self, device, inflight, world>>

----------------------------------------------------------------------------
(* _apply_temperature as a coroutine.  A handler runs from await to await: *)
(* it is suspended in each service call it makes and the assignment that   *)
(* follows the call is made when it resumes.  A frame holds where the      *)
(* handler is suspended and its local variables.  A call reaches the       *)
(* device when it is made; no call raises here.                            *)

Handlers == { "periodic_update", "service" }

IdleFrame ==
    [at |-> "idle", effective_mode |-> "-", diff |-> 0, main_target |-> None,
     secondary_effective_mode |-> "-", secondary_temp |-> None]

\* the handler makes the call c and is suspended in it
Suspended(me, f, dev, at, c) ==
    [self |-> me, frame |-> [f EXCEPT !.at = at],
     device |-> Transmit(dev, Made(<< c >>, 1, FALSE))]

\* the handler returns, or ends in an exception
Finished(me, dev) == [self |-> me, frame |-> IdleFrame, device |-> dev]

\* the handler runs on from the statement at point up to its next await
RECURSIVE RunFrom(_, _, _, _)
RunFrom(point, me, f, dev) ==
    CASE point = "off_main" ->
            IF me.last_main_mode # OFF
            THEN Suspended(me, f, dev, "await_off_main", SetEffectiveMainHvacMode(OFF)[1])
            ELSE RunFrom("off_secondary", me, f, dev)
      [] point = "off_secondary" ->
            IF secondary_climate /\ me.last_secondary_mode # OFF
            THEN Suspended(me, f, dev, "await_off_secondary",
                           SetEffectiveSecondary(OFF, None)[1])
            ELSE Finished(me, dev)
      [] point = "mode" ->
            IF f.effective_mode # me.last_main_mode
            THEN Suspended(me, f, dev, "await_mode",
                           SetEffectiveMainHvacMode(f.effective_mode)[1])
            ELSE RunFrom("temp", me, f, dev)
      [] point = "temp" ->
            IF f.effective_mode # OFF /\ me.target_temperature # None
               /\ me.last_main_temp # Some(MainTarget(me.target_temperature[1]))
            THEN LET main_target == MainTarget(me.target_temperature[1])
                 IN  Suspended(me, [f EXCEPT !.main_target = Some(main_target)], dev,
                               "await_temp", SetEffectiveMainTemperature(main_target)[1])
            ELSE RunFrom("secondary", me, f, dev)
      [] point = "secondary" ->
            IF ~secondary_climate THEN RunFrom("end", me, f, dev)
            ELSE LET secondary_effective_mode ==
                         SecondaryEffectiveMode(f.effective_mode, f.diff)
                 IN  IF secondary_effective_mode # OFF /\ me.target_temperature = None
                     THEN \* None + offset raises TypeError
                          Finished(me, dev)
                     ELSE LET secondary_temp ==
                                  IF secondary_effective_mode = OFF THEN None
                                  ELSE SecondaryTemp(secondary_effective_mode,
                                                     me.target_temperature[1])
                              g == [f EXCEPT
                                      !.secondary_effective_mode = secondary_effective_mode,
                                      !.secondary_temp = secondary_temp]
                              cs == SetEffectiveSecondary(secondary_effective_mode,
                                                          secondary_temp)
                          IN  IF secondary_effective_mode # me.last_secondary_mode
                                 \/ secondary_temp # me.last_secondary_temp
                              THEN Suspended(me, g, dev,
                                             IF Len(cs) = 2 THEN "await_secondary_temp"
                                             ELSE "await_secondary_mode", cs[1])
                              ELSE RunFrom("end", me, g, dev)
      [] OTHER ->
            Finished(IF f.effective_mode # OFF
                     THEN [me EXCEPT !.last_switch_time = now] ELSE me, dev)

\* the handler suspended with frame f resumes
Resumed(me, f, dev) ==
    CASE f.at = "await_off_main" ->
            RunFrom("off_secondary", [me EXCEPT !.last_main_mode = OFF], f, dev)
      [] f.at = "await_off_secondary" ->
            Finished([me EXCEPT !.last_secondary_mode = OFF], dev)
      [] f.at = "await_mode" ->
            RunFrom("temp", [me EXCEPT !.last_main_mode = f.effective_mode], f, dev)
      [] f.at = "await_temp" ->
            RunFrom("secondary", [me EXCEPT !.last_main_temp = f.main_target], f, dev)
      [] f.at = "await_secondary_temp" ->
            Suspended(me, f, dev, "await_secondary_mode",
                      SetEffectiveSecondary(f.secondary_effective_mode, None)[1])
      [] OTHER ->
            RunFrom("end", [me EXCEPT !.last_secondary_mode = f.secondary_effective_mode,
                                      !.last_secondary_temp = f.secondary_temp], f, dev)

\* _apply_temperature is entered on the entity me
Entered(me, s, o, dev) ==
    IF ~Usable(s) \/ ParseFloat(s) = None THEN Finished(me, dev)
    ELSE LET cur == ParseFloat(s)[1]
             read == [me EXCEPT !.current_temperature = Some(cur)]
         IN  IF read.target_temperature = None
             THEN RunFrom("off_main", read, IdleFrame, dev)
             ELSE RunFrom("mode", read,
                          [IdleFrame EXCEPT
                              !.effective_mode =
                                  EffectiveMode(cur, read.target_temperature[1], o),
                              !.diff = Diff(cur, read.target_temperature[1])],
                          dev)

----------------------------------------------------------------------------
(* Specification *)

\* the outdoor entity states a handler is run on: those of OutdoorStates
\* where _apply_temperature on me reads the outdoor sensor, and no entity
\* where it does not
OutdoorInputs(me, s) ==
    IF /\ outdoor_sensor
       /\ ReadCurrentTemp(s) # None
       /\ me.target_temperature # None
       /\ ReadCurrentTemp(s)[1] > me.target_temperature[1] + primary_threshold
    THEN OutdoorStates
    ELSE {Missing}

\* the index of the service call that raises: 0 (none) or one of the calls
\* the method makes when none raises, which returns r
FailPoints(r) == 0 .. Len(r.calls)

\* the entity after __init__
Constructed ==
    [ target_temperature |-> None,
      current_temperature |-> None,
      preset_mode |-> "eco",
      last_main_mode |-> OFF,
      last_main_temp |-> None,
      last_secondary_mode |-> OFF,
      last_secondary_temp |-> None,
      min_runtime |-> min_runtime,
      last_switch_time |-> now - min_runtime,
      update_unsub |-> FALSE ]

\* a secondary threshold above the default is tried without outdoor sensor
Init ==
    /\ secondary_climate \in BOOLEAN
    /\ outdoor_sensor \in BOOLEAN
    /\ primary_threshold = DEFAULT_TEMP_THRESHOLD_PRIMARY
    /\ secondary_threshold \in {DEFAULT_TEMP_THRESHOLD_SECONDARY,
                                DEFAULT_TEMP_THRESHOLD_SECONDARY + 1}
    /\ outdoor_sensor => secondary_threshold = DEFAULT_TEMP_THRESHOLD_SECONDARY + 1
    /\ clock = 0
    /\ self = Constructed
    /\ device = [e \in {MAIN, SECONDARY} |-> [hvac_mode |-> OFF, temperature |-> None]]
    /\ inflight = [h \in Handlers |-> IdleFrame]
    /\ world = [stable |-> FALSE, s |-> Missing, o |-> Missing]

Next ==
    \/ \E last_state \in RestoredStates : AddedToHass(last_state)
    \/ \E s \in IndoorStates :
       \E o \in OutdoorInputs(self, s) :
       \E fail \in FailPoints(PeriodicUpdateResult(self, s, o, 0, now)) :
           PeriodicUpdate(s, o, fail)
    \/ \E temperature \in TemperatureInputs, s \in IndoorStates :
       \E o \in OutdoorInputs(SetTemperatureResult(self, temperature, Missing, Missing, 0, now).self, s) :
       \E fail \in FailPoints(SetTemperatureResult(self, temperature, s, o, 0, now)) :
           SetTemperature(temperature, s, o, fail)
    \/ \E p \in PresetInputs, s \in IndoorStates :
       \E o \in OutdoorInputs(SetPresetModeResult(self, p, s, Missing, 0, now).self, s) :
       \E fail \in FailPoints(SetPresetModeResult(self, p, s, o, 0, now)) :
           SetPresetMode(p, s, o, fail)

Spec == Init /\ [][Next]_vars

\* the same with time passing between the handlers
NextTimed == Next \/ Advance

\* the configurations run with time passing: no outdoor sensor, the default
\* thresholds
InitTimed ==
    Init /\ ~outdoor_sensor /\ secondary_threshold = DEFAULT_TEMP_THRESHOLD_SECONDARY

SpecTimed == InitTimed /\ [][NextTimed]_vars

\* the presets alone: every name of the tables on readings around the
\* midpoint of "comfort", with one device
InitPresets == Init /\ ~secondary_climate /\ ~outdoor_sensor

NextPresets ==
    \/ \E last_state \in RestoredStates : AddedToHass(last_state)
    \/ \E p \in AllPresetInputs, s \in PresetIndoorStates :
       \E o \in OutdoorInputs(SetPresetModeResult(self, p, s, Missing, 0, now).self, s) :
       \E fail \in FailPoints(SetPresetModeResult(self, p, s, o, 0, now)) :
           SetPresetMode(p, s, o, fail)

SpecPresets == InitPresets /\ [][NextPresets]_vars

\* handlers that overlap: the periodic update and one service call may both
\* be suspended in a service call, and resume in either order
OverlapIndoorStates ==
    { Unavailable, Num(Centre - Span), Num(Centre), Num(Centre + Span) }

Commit(h, r) ==
    /\ self' = r.self
    /\ device' = r.device
    /\ inflight' = [inflight EXCEPT ![h] = r.frame]
    /\ UNCHANGED <<config, clock, world>>

PeriodicUpdateStarts(s, o) ==
    /\ Started /\ inflight["periodic_update"].at = "idle"
    /\ Commit("periodic_update", Entered(self, s, o, device))

SetTemperatureStarts(temperature, s, o) ==
    /\ Started /\ inflight["service"].at = "idle"
    /\ Commit("service",
              IF temperature = None THEN Finished(self, device)
              ELSE Entered([self EXCEPT !.target_temperature = temperature], s, o, device))

SetPresetModeStarts(p, s, o) ==
    /\ Started /\ inflight["service"].at = "idle"
    /\ Commit("service",
              IF ~KnownPreset(p) THEN Finished(self, device)
              ELSE Entered([self EXCEPT
                              !.preset_mode = p,
                              !.target_temperature =
                                  PresetTarget(p, ReadCurrentTemp(s), self.target_temperature)],
                           s, o, device))

Resumes(h) ==
    /\ inflight[h].at # "idle"
    /\ Commit(h, Resumed(self, inflight[h], device))

InitOverlap ==
    Init /\ ~outdoor_sensor /\ secondary_threshold = DEFAULT_TEMP_THRESHOLD_SECONDARY

NextOverlap ==
    \/ \E last_state \in RestoredStates : AddedToHass(last_state)
    \/ \E s \in OverlapIndoorStates : PeriodicUpdateStarts(s, Missing)
    \/ \E temperature \in TemperatureInputs, s \in OverlapIndoorStates :
           SetTemperatureStarts(temperature, s, Missing)
    \/ \E p \in PresetInputs, s \in OverlapIndoorStates :
           SetPresetModeStarts(p, s, Missing)
    \/ \E h \in Handlers : Resumes(h)

SpecOverlap == InitOverlap /\ [][NextOverlap]_vars

\* the surroundings come to rest: until then the handlers run on any
\* readings and any call may raise; from then on the indoor and outdoor
\* states and the target stay as they are, no call raises, and the timer
\* of async_added_to_hass keeps firing
LiveIndoorStates ==
    { Unavailable, Num(Centre - Span), Num(Centre), Num(Centre + Span) }

ComesToRest(s, o) ==
    /\ Started /\ ~world.stable
    /\ world' = [stable |-> TRUE, s |-> s, o |-> o]
    /\ UNCHANGED <<config, self, device, clock, inflight>>

\* the timer fires on the readings at rest, and no call raises
TickAtRest ==
    /\ world.stable
    /\ PeriodicUpdate(world.s, world.o, 0)

InitLive ==
    Init /\ secondary_threshold = DEFAULT_TEMP_THRESHOLD_SECONDARY + 1

NextLive ==
    \/ \E last_state \in RestoredStates : AddedToHass(last_state)
    \/ /\ ~world.stable
       /\ \E s \in LiveIndoorStates :
          \E o \in OutdoorInputs(self, s) :
          \E fail \in FailPoints(PeriodicUpdateResult(self, s, o, 0, now)) :
              PeriodicUpdate(s, o, fail)
    \/ /\ ~world.stable
       /\ \E temperature \in TemperatureInputs, s \in LiveIndoorStates :
          \E o \in OutdoorInputs(SetTemperatureResult(self, temperature, Missing, Missing, 0, now).self, s) :
          \E fail \in FailPoints(SetTemperatureResult(self, temperature, s, o, 0, now)) :
              SetTemperature(temperature, s, o, fail)
    \/ /\ ~world.stable
       /\ \E p \in PresetInputs, s \in LiveIndoorStates :
          \E o \in OutdoorInputs(SetPresetModeResult(self, p, s, Missing, 0, now).self, s) :
          \E fail \in FailPoints(SetPresetModeResult(self, p, s, o, 0, now)) :
              SetPresetMode(p, s, o, fail)
    \/ \E s \in LiveIndoorStates : \E o \in OutdoorInputs(self, s) : ComesToRest(s, o)
    \/ TickAtRest
    \/ Advance

\* the next tick on the readings at rest
TickResult == PeriodicUpdateResult(self, world.s, world.o, 0, now)

\* ENABLED <<TickAtRest>>_vars as a state predicate: the timer runs and the
\* tick at rest changes the entity or the devices
TickEnabled ==
    /\ world.stable /\ Started
    /\ \/ TickResult.self # self
       \/ Transmit(device, TickResult.calls) # device

TickEnabledIsEnabled == TickEnabled <=> ENABLED <<TickAtRest>>_vars

\* the timer of async_added_to_hass fires every UPDATE_INTERVAL seconds for
\* as long as the entity lives: WF_vars(TickAtRest), with its ENABLED
\* written as TickEnabled
TimerKeepsFiring == []<>(~TickEnabled) \/ []<><<TickAtRest>>_vars

SpecLive == InitLive /\ [][NextLive]_vars /\ TimerKeepsFiring

----------------------------------------------------------------------------
(* The runs a handler can make from an entity me: one for every input the  *)
(* next-state relation draws.  A run is the entity at entry, the inputs    *)
(* and what the method returned.                                           *)

Ran(op, temperature, preset_mode, me, s, o, fail, r) ==
    [op |-> op, temperature |-> temperature, preset_mode |-> preset_mode,
     before |-> me, s |-> s, o |-> o, fail |-> fail, r |-> r]

PeriodicRuns(me) ==
    UNION { UNION { { Ran("periodic_update", None, "-", me, s, o, fail,
                          PeriodicUpdateResult(me, s, o, fail, now)) :
                      fail \in FailPoints(PeriodicUpdateResult(me, s, o, 0, now)) } :
                    o \in OutdoorInputs(me, s) } :
            s \in IndoorStates }

SetTemperatureRuns(me, temperatures) ==
    UNION { UNION { UNION { { Ran("set_temperature", t, "-", me, s, o, fail,
                                  SetTemperatureResult(me, t, s, o, fail, now)) :
                              fail \in FailPoints(SetTemperatureResult(me, t, s, o, 0, now)) } :
                            o \in OutdoorInputs(
                                     SetTemperatureResult(me, t, Missing, Missing, 0, now).self, s) } :
                    s \in IndoorStates } :
            t \in temperatures }

SetPresetModeRunsOn(me, presets, states) ==
    UNION { UNION { UNION { { Ran("set_preset_mode", None, p, me, s, o, fail,
                                  SetPresetModeResult(me, p, s, o, fail, now)) :
                              fail \in FailPoints(SetPresetModeResult(me, p, s, o, 0, now)) } :
                            o \in OutdoorInputs(
                                     SetPresetModeResult(me, p, s, Missing, 0, now).self, s) } :
                    s \in states } :
            p \in presets }

SetPresetModeRuns(me, presets) == SetPresetModeRunsOn(me, presets, IndoorStates)

\* the runs of every handler, once the entity is added to hass
Runs(me) ==
    IF ~me.update_unsub THEN {}
    ELSE PeriodicRuns(me) \cup SetTemperatureRuns(me, TemperatureInputs)
         \cup SetPresetModeRuns(me, PresetInputs)

\* the handler of the run e with its arguments, readings and failing call,
\* run on the entity me
Rerun(e, me) ==
    IF e.op = "periodic_update" THEN PeriodicUpdateResult(me, e.s, e.o, e.fail, now)
    ELSE IF e.op = "set_temperature"
         THEN SetTemperatureResult(me, e.temperature, e.s, e.o, e.fail, now)
         ELSE SetPresetModeResult(me, e.preset_mode, e.s, e.o, e.fail, now)

Abs(x) == IF x < 0 THEN 0 - x ELSE x

\* the mode of a device that is decided off or is not configured
Idle(mode) == mode \in {OFF, "-"}

----------------------------------------------------------------------------
(* Claims *)

\* C1: with a target, an indoor reading, no outdoor sensor and t_s > t_p, an
\* evaluation decides by the error |current - target|: up to t_p both
\* devices off; above t_p and up to t_s (inclusive) the primary heats below
\* the target and cools above it with the secondary off; above t_s the
\* secondary, where configured, runs in the primary's mode.  An evaluation
\* in which no call raises leaves the decided modes as the last commanded.
C1_TieredActivation ==
    \A e \in Runs(self) :
        (e.r.path = "decided" /\ ~outdoor_sensor /\ secondary_threshold > primary_threshold)
        => LET cur == e.r.self.current_temperature[1]
               tgt == e.r.self.target_temperature[1]
               err == Abs(cur - tgt)
               active == IF cur < tgt THEN HEAT ELSE COOL
               primary == e.r.effective_mode
               secondary == e.r.secondary_effective_mode
           IN  /\ err <= primary_threshold => primary = OFF /\ Idle(secondary)
               /\ (primary_threshold < err /\ err <= secondary_threshold)
                  => primary = active /\ Idle(secondary)
               /\ err > secondary_threshold
                  => primary = active /\ (secondary_climate => secondary = primary)
               /\ ~e.r.raised
                  => /\ e.r.self.last_main_mode = primary
                     /\ secondary_climate => e.r.self.last_secondary_mode = secondary

\* C1 witness: target 22, t_p 1, t_s 3 and reading 19: the error equals t_s,
\* the primary has been set to heat and the secondary is off
C1_Witness ==
    /\ ~outdoor_sensor /\ secondary_climate
    /\ primary_threshold = 1 /\ secondary_threshold = 3
    /\ self.target_temperature = Some(22)
    /\ self.current_temperature = Some(19)
    /\ self.last_main_mode = HEAT /\ device[MAIN].hvac_mode = HEAT
    /\ self.last_secondary_mode = OFF /\ device[SECONDARY].hvac_mode = OFF

\* the last-commanded fields of an entity
LastCommanded(me) ==
    <<me.last_main_mode, me.last_main_temp, me.last_secondary_mode, me.last_secondary_temp>>

\* the tick that follows the run e at once, on the readings of e
Repeat(e) == PeriodicUpdateResult(e.r.self, e.s, e.o, 0, now)

\* C2: from every reachable state, a tick in which no command raises,
\* followed at once by a tick on the same indoor reading, outdoor reading and
\* target, makes the second tick issue no command to either device and leave
\* the last-commanded fields as they are.
C2_TickIdempotence ==
    Started =>
        \A e \in PeriodicRuns(self) :
            ~e.r.raised
            => /\ Repeat(e).self.target_temperature = e.r.self.target_temperature
               /\ Repeat(e).calls = << >>
               /\ LastCommanded(Repeat(e).self) = LastCommanded(e.r.self)

\* C2 witness: a tick is about to command both devices (mode and setpoint
\* each) with success, and the tick after it on the same readings is silent
C2_Witness ==
    /\ Started /\ secondary_climate
    /\ \E e \in PeriodicRuns(self) :
           /\ ~e.r.raised
           /\ Len(e.r.calls) = 4
           /\ Repeat(e).calls = << >>

\* C3: with an outdoor sensor configured and current > target + t_p, an
\* evaluation decides the primary COOL exactly when the outdoor reading is
\* available, parses and is at or above the hot threshold (the threshold
\* itself permits cooling); otherwise it decides the primary OFF and the
\* secondary, where configured, OFF as well.  An evaluation in which no call
\* raises leaves the decided modes as the last commanded.
C3_OutdoorVeto ==
    \A e \in Runs(self) :
        (/\ outdoor_sensor
         /\ e.r.path = "decided"
         /\ e.r.self.current_temperature[1]
                > e.r.self.target_temperature[1] + primary_threshold)
        => LET permitted == e.o.kind = "num" /\ e.o.val >= outdoor_hot_threshold
               primary == e.r.effective_mode
               secondary == e.r.secondary_effective_mode
           IN  /\ e.o \in OutdoorStates
               /\ permitted => primary = COOL
               /\ ~permitted => primary = OFF /\ Idle(secondary)
               /\ ~e.r.raised
                  => /\ e.r.self.last_main_mode = primary
                     /\ secondary_climate => e.r.self.last_secondary_mode = secondary

\* C3 witness: with an outdoor sensor, the primary has been set to cool at a
\* reading above target + t_p, and the same evaluation on an outdoor reading
\* one degree below the hot threshold, or on none, decides OFF
C3_Witness ==
    /\ outdoor_sensor
    /\ self.target_temperature # None /\ self.current_temperature # None
    /\ self.current_temperature[1] > self.target_temperature[1] + primary_threshold
    /\ self.last_main_mode = COOL /\ device[MAIN].hvac_mode = COOL
    /\ \A o \in { Num(outdoor_hot_threshold - 1), Unavailable, Garbage } :
           PeriodicUpdateResult(self, Num(self.current_temperature[1]), o, 0, now)
               .effective_mode = OFF
    /\ PeriodicUpdateResult(self, Num(self.current_temperature[1]),
                            Num(outdoor_hot_threshold), 0, now).effective_mode = COOL

\* the preset runs on a known indoor temperature: every name of the tables,
\* every reading that parses, every call that may raise
KnownTempPresetRuns(me) ==
    UNION { { [p |-> p, cur |-> ParseFloat(x.s)[1], h |-> heating_presets[p],
               c |-> cooling_presets[p], r |-> x.r] :
              x \in { y \in SetPresetModeRunsOn(me, {p}, PresetIndoorStates) :
                          y.s.kind = "num" } } :
            p \in DOMAIN heating_presets \cap DOMAIN cooling_presets }

\* C4: set_preset_mode of a name of the tables on a known indoor temperature
\* sets the target to the heating target if only that is present, to the
\* cooling target if only that is present, with both present to the heating
\* target if current < (heating + cooling) / 2 and else, the midpoint
\* included, to the cooling target, and to absent if both are absent
\* ("none").  "comfort" (20/24) gives 20 at 21, 24 at 23 and 24 at 22.
C4_PresetResolution ==
    Started =>
        \A e \in KnownTempPresetRuns(self) :
            LET target == e.r.self.target_temperature
            IN  /\ e.r.self.preset_mode = e.p
                /\ (e.h # None /\ e.c = None) => target = e.h
                /\ (e.h = None /\ e.c # None) => target = e.c
                /\ (e.h # None /\ e.c # None /\ 2 * e.cur < e.h[1] + e.c[1]) => target = e.h
                /\ (e.h # None /\ e.c # None /\ 2 * e.cur >= e.h[1] + e.c[1]) => target = e.c
                /\ (e.h = None /\ e.c = None) => target = None
                /\ e.p = "none" => target = None
                /\ (e.p = "comfort" /\ e.cur = 21) => target = Some(20)
                /\ (e.p = "comfort" /\ e.cur = 23) => target = Some(24)
                /\ (e.p = "comfort" /\ e.cur = 22) => target = Some(24)

\* C4 witness: "comfort" was selected at the midpoint 22 and the target is
\* the cooling target 24
C4_Witness ==
    /\ self.preset_mode = "comfort"
    /\ self.current_temperature = Some(22)
    /\ self.target_temperature = Some(24)

\* the calls of a run in the order made, whether they returned or raised
Sent(r) == [i \in 1 .. Len(r.calls) |-> r.calls[i].call]

\* the OFF mode commands owed by an entity: one for each configured device
\* whose last-commanded mode is not OFF, the main device first
OffCommands(me) ==
    (IF me.last_main_mode # OFF
     THEN << Call(MAIN, "set_hvac_mode", OFF, None) >> ELSE << >>)
    \o (IF secondary_climate /\ me.last_secondary_mode # OFF
        THEN << Call(SECONDARY, "set_hvac_mode", OFF, None) >> ELSE << >>)

\* the target is absent and no OFF command is owed
Settled(me) == me.target_temperature = None /\ OffCommands(me) = << >>

\* s is t or the calls of t up to one of them
IsPrefix(s, t) == Len(s) <= Len(t) /\ \A i \in 1 .. Len(s) : s[i] = t[i]

C6_NoSecondaryCommands ==
    ~secondary_climate
    => /\ self.last_secondary_mode = OFF
       /\ self.last_secondary_temp = None
       /\ device[SECONDARY] = [hvac_mode |-> OFF, temperature |-> None]
       /\ \A e \in Runs(self) :
              /\ \A i \in 1 .. Len(e.r.calls) : e.r.calls[i].call.entity_id # SECONDARY
              /\ e.r.self.last_secondary_mode = OFF
              /\ e.r.self.last_secondary_temp = None

\* C6 witness: no secondary is configured and the main device heats at an
\* error above t_s, where a secondary would have been commanded
C6_Witness ==
    /\ ~secondary_climate
    /\ self.target_temperature # None /\ self.current_temperature # None
    /\ self.target_temperature[1] - self.current_temperature[1] > secondary_threshold
    /\ self.last_main_mode = HEAT /\ device[MAIN].hvac_mode = HEAT
    /\ device[MAIN].temperature = Some(MainTarget(self.target_temperature[1]))

\* the last-commanded field of me that the call c advances
LastField(me, c) ==
    IF c.entity_id = MAIN
    THEN (IF c.service = "set_hvac_mode" THEN <<me.last_main_mode>> ELSE me.last_main_temp)
    ELSE (IF c.service = "set_hvac_mode"
          THEN <<me.last_secondary_mode>> ELSE me.last_secondary_temp)

\* the call of the run e that raised
Failed(e) == e.r.calls[Len(e.r.calls)].call

\* the ticks that follow the run e on the readings of e: the decision is the same
SameDecisionTicks(e) ==
    { f \in PeriodicRuns(e.r.self) : f.s = e.s /\ f.o = e.o }

\* C7: when a mode or setpoint command raises in an evaluation, the
\* last-commanded field it would have advanced is left as it was, the
\* command is made once in that evaluation, and the next tick that computes
\* the same decision makes the same command again.
C7_FailureRetry ==
    \A e \in Runs(self) :
        e.r.raised
        => /\ LastField(e.r.self, Failed(e)) = LastField(e.before, Failed(e))
           /\ Cardinality({ i \in 1 .. Len(e.r.calls) : e.r.calls[i].call = Failed(e) }) = 1
           /\ \A f \in SameDecisionTicks(e) :
                  \E i \in 1 .. Len(f.r.calls) : f.r.calls[i].call = Failed(e)

\* the mode an evaluation computes for a device; with the target absent: OFF
ComputedMode(e, entity_id) ==
    IF e.r.path = "target_none" THEN OFF
    ELSE IF entity_id = MAIN THEN e.r.effective_mode ELSE e.r.secondary_effective_mode

\* the last-commanded mode of a device at the entry of the run e
LastMode(e, entity_id) ==
    IF entity_id = MAIN THEN e.before.last_main_mode ELSE e.before.last_secondary_mode

\* C8: an evaluation makes a mode command for a device, main or secondary,
\* only if the mode it computes for the device differs from the device's
\* last-commanded mode; a change of the setpoint alone and a secondary
\* computed OFF while last commanded OFF make no mode command.
C8_ModeSuppression ==
    \A e \in Runs(self) :
        \A i \in 1 .. Len(e.r.calls) :
            LET c == e.r.calls[i].call
            IN  c.service = "set_hvac_mode"
                => /\ c.hvac_mode = ComputedMode(e, c.entity_id)
                   /\ c.hvac_mode # LastMode(e, c.entity_id)

\* C9: an evaluation makes a setpoint command for a device, main or
\* secondary, only if the mode it computes for the device is not OFF and the
\* setpoint differs from the one last transmitted to the device with
\* success; a change of mode at the same setpoint makes no setpoint command.
C9_SetpointSuppression ==
    \A e \in Runs(self) :
        \A i \in 1 .. Len(e.r.calls) :
            LET c == e.r.calls[i].call
            IN  c.service = "set_temperature"
                => /\ ComputedMode(e, c.entity_id) # OFF
                   /\ c.temperature # device[c.entity_id].temperature

\* C10: after every handler, whether it returned or raised, the last main
\* mode is the mode of the last mode command transmitted to the main device
\* with success, OFF if there was none, and the last secondary mode is that
\* of the secondary device.
C10_LastModeMirror ==
    /\ self.last_main_mode = device[MAIN].hvac_mode
    /\ self.last_secondary_mode = device[SECONDARY].hvac_mode

\* C10 witness: the main device was set to heat and the setpoint command
\* that follows raised, so none was transmitted
C10_Witness ==
    /\ self.last_main_mode = HEAT /\ device[MAIN].hvac_mode = HEAT
    /\ self.last_main_temp = None /\ device[MAIN].temperature = None

\* C11: set_preset_mode of a name in neither table leaves the preset, the
\* target, the current temperature and every last-commanded field as they
\* are (the whole entity, and so the devices) and makes no service call.
C11_UnknownPresetRejected ==
    Started =>
        \A e \in SetPresetModeRuns(self, AllPresetInputs \ (DOMAIN heating_presets
                                                              \cup DOMAIN cooling_presets)) :
            /\ e.r.self = self
            /\ e.r.calls = << >>
            /\ Transmit(device, e.r.calls) = device

\* C11 witness: an unknown name is rejected on readings on which a tick
\* would command the devices, with the main device heating
C11_Witness ==
    /\ Started /\ self.last_main_mode = HEAT
    /\ \E e \in SetPresetModeRuns(self, {"party"}) :
           /\ e.r.path = "rejected"
           /\ PeriodicUpdateResult(self, e.s, e.o, 0, now).calls # << >>

\* C12: an evaluation (tick, preset change, manual setpoint) that finds the
\* target absent sends an OFF mode command to every configured device whose
\* last-commanded mode is not OFF, also when the indoor reading is missing,
\* unavailable or does not parse.  Stated for the evaluations in which no
\* call raises.
C12_FailSafeOffWithoutSensor ==
    \A e \in Runs(self) :
        (/\ e.r.path \in {"target_none", "no_sensor"}
         /\ e.r.self.target_temperature = None
         /\ ~e.r.raised)
        => Sent(e.r) = OffCommands(e.before)

\* the entity states on which set_preset_mode reads no indoor temperature
UnknownTempStates == { x \in PresetIndoorStates \cup IndoorStates : ReadCurrentTemp(x) = None }

\* C13: set_preset_mode of a known name while the indoor temperature is
\* unknown sets the target to the one target the preset has, if it has only
\* a heating or only a cooling target, and leaves the target as it was if
\* the preset has both.
C13_PresetUnknownTemp ==
    Started =>
        \A p \in DOMAIN heating_presets \cap DOMAIN cooling_presets :
            \A e \in SetPresetModeRunsOn(self, {p}, UnknownTempStates) :
                LET h == heating_presets[p]
                    c == cooling_presets[p]
                    target == e.r.self.target_temperature
                IN  /\ (h # None /\ c = None) => target = h
                    /\ (h = None /\ c # None) => target = c
                    /\ (h # None /\ c # None) => target = self.target_temperature

\* C14: set_temperature with a temperature sets the target to exactly that
\* value, leaves the preset as it is and runs one evaluation against the new
\* target: it makes the calls and leaves the last-commanded fields that a
\* tick on the same readings makes from an entity with that target.
\* set_temperature without a temperature changes nothing and makes no call.
C14_ManualSetpoint ==
    Started =>
        \A t \in TemperatureInputs :
            \A e \in SetTemperatureRuns(self, {t}) :
                IF t = None
                THEN e.r.self = self /\ e.r.calls = << >>
                ELSE LET tick == PeriodicUpdateResult(
                                     [self EXCEPT !.target_temperature = t],
                                     e.s, e.o, e.fail, now)
                     IN  /\ e.r.self.target_temperature = t
                         /\ e.r.self.preset_mode = self.preset_mode
                         /\ e.r.calls = tick.calls
                         /\ LastCommanded(e.r.self) = LastCommanded(tick.self)
                         /\ e.r.path \in {"decided", "no_sensor"}

\* C14 witness: the target is the manual value 23, under the preset "eco"
\* whose targets are 15 and none, and the main device was given 23 + offset
C14_Witness ==
    /\ self.target_temperature = Some(Centre + 1)
    /\ self.preset_mode = "eco"
    /\ self.last_main_temp = Some(MainTarget(Centre + 1))
    /\ device[MAIN].temperature = Some(MainTarget(Centre + 1))

\* the indoor entity states that give no reading
LostStates == { Missing, Unknown, Unavailable, Garbage }

\* C15: a tick that finds the indoor state missing, unknown, unavailable or
\* not a number while the target is present makes no call and leaves the
\* entity as it is: last-commanded modes and setpoints, last switch time,
\* target and preset.
C15_SensorLoss ==
    (Started /\ self.target_temperature # None)
    => \A s \in LostStates, o \in OutdoorStates \cup {Missing} :
           LET r == PeriodicUpdateResult(self, s, o, 0, now)
           IN  /\ r.calls = << >>
               /\ r.self = self
               /\ r.path = "no_sensor"

\* C15 witness: both devices heat towards a target, and a tick without an
\* indoor reading is silent where a tick on a reading at the target would
\* switch them off
C15_Witness ==
    /\ Started /\ self.target_temperature # None
    /\ self.last_main_mode = HEAT /\ self.last_secondary_mode = HEAT
    /\ PeriodicUpdateResult(self, Unavailable, Missing, 0, now).calls = << >>
    /\ Len(PeriodicUpdateResult(self, Num(self.target_temperature[1]), Missing, 0, now).calls) = 2

\* the values of min_runtime and of last_switch_time an evaluation is
\* compared on: no minimum and the default; switched just now and switched
\* min_runtime ago
MinRuntimes == { 0, DEFAULT_MIN_RUNTIME }
SwitchTimes == { now, now - DEFAULT_MIN_RUNTIME }

OtherLastCommanded ==
    { << m, IF m = OFF THEN None ELSE Some(MainTarget(Centre)),
         sm, IF sm = OFF THEN None ELSE Some(Centre + secondary_offset) >> :
        m \in {OFF, HEAT, COOL}, sm \in {OFF, HEAT, COOL} }

\* the entity me with the last-commanded fields l
WithLastCommanded(me, l) ==
    [me EXCEPT !.last_main_mode = l[1], !.last_main_temp = l[2],
               !.last_secondary_mode = IF secondary_climate THEN l[3] ELSE @,
               !.last_secondary_temp = IF secondary_climate THEN l[4] ELSE @]

\* what an evaluation that returned r decided and left: the modes decided,
\* the last-commanded modes, and whether the last-commanded setpoint of each
\* device left active is target + its offset
Decided(r) ==
    << r.effective_mode, r.secondary_effective_mode,
       r.self.last_main_mode, r.self.last_secondary_mode,
       r.self.last_main_mode # OFF
          => r.self.last_main_temp = Some(r.self.target_temperature[1] + primary_offset),
       r.self.last_secondary_mode # OFF
          => r.self.last_secondary_temp = Some(r.self.target_temperature[1] + secondary_offset) >>

\* C17: the decision of an evaluation depends on the indoor reading, the
\* target, the thresholds, the offsets and the outdoor reading only: run on
\* an entity that differs in the last-commanded modes and setpoints, an
\* evaluation in which no call raises decides the same modes and leaves the
\* same last-commanded modes for both devices, and the setpoint of a device
\* left active is target + its offset.  A main device running HEAT is
\* decided OFF as soon as current >= target - t_p.
C17_SelfContainedDecision ==
    \A e \in Runs(self) :
        (e.fail = 0 /\ e.r.path \in {"decided", "target_none"})
        => /\ \A l \in OtherLastCommanded :
                  Decided(Rerun(e, WithLastCommanded(e.before, l))) = Decided(e.r)
           /\ Decided(e.r)[5] /\ Decided(e.r)[6]
           /\ (/\ e.r.path = "decided" /\ e.before.last_main_mode = HEAT
               /\ e.r.self.current_temperature[1]
                     >= e.r.self.target_temperature[1] - primary_threshold
               /\ e.r.self.current_temperature[1]
                     <= e.r.self.target_temperature[1] + primary_threshold)
              => e.r.effective_mode = OFF /\ e.r.self.last_main_mode = OFF

\* C17 witness: the main device, which has run, is off at a reading equal to
\* target - t_p
C17_Witness ==
    /\ self.target_temperature # None /\ self.current_temperature # None
    /\ self.current_temperature[1] = self.target_temperature[1] - primary_threshold
    /\ self.last_main_mode = OFF /\ device[MAIN].hvac_mode = OFF
    /\ device[MAIN].temperature # None

\* C18: with a mode_sync template configured, an evaluation in which no call
\* raises leaves the main device in the mode the template renders, if that
\* is "heat" or "cool", and in the mode decided from the thresholds if the
\* template renders anything else or raises.
C18_ModeOverride ==
    \A e \in Runs(self), rendered \in TemplateResults :
        (e.r.path = "decided" /\ e.fail = 0)
        => LET forced == EvaluateModeSync(TRUE, rendered)
           IN  e.r.self.last_main_mode
                  = (IF forced # None THEN forced[1] ELSE e.r.effective_mode)

\* no handler is suspended in a service call
AllFinished == \A h \in Handlers : inflight[h].at = "idle"

\* C19: when a periodic update and a preset change or manual setpoint
\* overlap, each suspended in its service calls, then under every
\* interleaving, once both have finished the last main mode is the mode last
\* transmitted to the main device and the last secondary mode the mode last
\* transmitted to the secondary device.
C19_OverlapKeepsMirror ==
    AllFinished
    => /\ self.last_main_mode = device[MAIN].hvac_mode
       /\ self.last_secondary_mode = device[SECONDARY].hvac_mode

\* the secondary is recorded off or in the mode of the main device
Follows(me) == me.last_secondary_mode \in {OFF, me.last_main_mode}

\* C20 as stated: with a secondary configured, after every handler, those
\* ended by a call that raises included, the last secondary mode is OFF or
\* the last main mode.
C20_SecondaryFollowsPrimary ==
    secondary_climate => Follows(self)

\* C20 amended: with a secondary configured, a handler that evaluates with
\* no call raising leaves the last secondary mode OFF or equal to the last
\* main mode; a handler that does not evaluate changes neither mode; a
\* handler ended by a call that raises leaves the last secondary mode as it
\* was, whatever the last main mode has become.
C20_SecondaryFollowsUnlessFailed ==
    secondary_climate
    => \A e \in Runs(self) :
           /\ (e.r.path \in {"decided", "target_none"} /\ ~e.r.raised) => Follows(e.r.self)
           /\ e.r.path \in {"no_sensor", "rejected"}
              => /\ e.r.self.last_main_mode = e.before.last_main_mode
                 /\ e.r.self.last_secondary_mode = e.before.last_secondary_mode
           /\ e.r.raised => e.r.self.last_secondary_mode = e.before.last_secondary_mode

\* C20 witness: a call that raised has left the secondary recorded heating
\* with the main device recorded off, and a tick in which no call raises is
\* about to cool with both
C20_Witness ==
    /\ secondary_climate
    /\ self.last_main_mode = OFF /\ self.last_secondary_mode = HEAT
    /\ \E e \in PeriodicRuns(self) :
           /\ ~e.r.raised
           /\ e.r.self.last_main_mode = COOL /\ e.r.self.last_secondary_mode = COOL

----------------------------------------------------------------------------
\* the surroundings are at rest with an indoor reading that is a number
AtRest == world.stable /\ Usable(world.s) /\ ParseFloat(world.s) # None

\* the last-commanded modes are the decided ones, the last-commanded
\* setpoint of a device that is not OFF is the target plus the offset of the
\* device, and the next tick issues no command
Converged ==
    LET r == TickResult
        e == [r |-> r]
    IN  /\ r.path \in {"target_none", "decided"}
        /\ r.calls = << >>
        /\ self.last_main_mode = ComputedMode(e, MAIN)
        /\ secondary_climate => self.last_secondary_mode = ComputedMode(e, SECONDARY)
        /\ self.last_main_mode # OFF
               => self.last_main_temp = Some(self.target_temperature[1] + primary_offset)
        /\ secondary_climate /\ self.last_secondary_mode # OFF
               => self.last_secondary_temp
                      = Some(self.target_temperature[1] + secondary_offset)

\* C21: once the timer runs no step stops it, whatever call raised in a
\* tick; and once the indoor reading (a number), the outdoor reading and the
\* target stay fixed and no call raises any more, the ticks that keep
\* occurring bring the entity to a state, kept from then on, in which the
\* last-commanded modes of both devices are the decided modes, the
\* last-commanded setpoint of every device that is not OFF is the target
\* plus its offset, and a tick issues no command.
C21_ConvergenceAfterFailures ==
    /\ [][self.update_unsub => self'.update_unsub]_vars
    /\ [](AtRest => <>[]Converged)

\* converged at rest with both devices heating at the target plus their
\* offsets, the commands having reached the devices
C21_Witness ==
    /\ AtRest /\ Converged
    /\ secondary_climate
    /\ self.last_main_mode = HEAT /\ self.last_secondary_mode = HEAT
    /\ device[MAIN] = [hvac_mode |-> HEAT, temperature |-> self.last_main_temp]
    /\ device[SECONDARY] = [hvac_mode |-> HEAT, temperature |-> self.last_secondary_temp]

====
